---------------------------- MODULE Spec2Model ----------------------------
(***************************************************************************)
(* A model of the comfydv plugin nodes (FormatString, CircuitBreaker).     *)
(*                                                                         *)
(* Python strings are finite sequences of one-character strings, so that   *)
(* the regular expressions of _extract_keys, str.format and the substring  *)
(* test of IS_CHANGED are computed character by character.  A Python dict  *)
(* is a function whose DOMAIN is the set of its keys.                      *)
(***************************************************************************)
EXTENDS Integers, Sequences, FiniteSets, TLC

(***************************************************************************)
(* Characters and character classes of Python's re module.                 *)
(***************************************************************************)

\* \w of the regular expressions: letters and the underscore of the alphabet
WordChars ==
    {"a","b","c","d","e","f","g","h","i","j","k","l","m","n","o","p","q","r",
     "s","t","u","v","w","x","y","z","A","B","H","J","N","S","T","_"}

\* \s of the regular expressions
SpaceChars == {" ", "\n"}

\* every other character the templates of the model are written with
PunctChars == {"{", "}", "|", ".", "(", ")", "%", ",", ":", "/"}

Alphabet == WordChars \cup SpaceChars \cup PunctChars

\* [\w.]
WordDotChars == WordChars \cup {"."}

\* [\w\s]
WordSpaceChars == WordChars \cup SpaceChars

\* [^\(\)]
NotParenChars == Alphabet \ {"(", ")"}

\* . without re.DOTALL
DotChars == Alphabet \ {"\n"}

\* s[i], or "" past either end of s
At(s, i) == IF i \in 1..Len(s) THEN s[i] ELSE ""

\* s[i..j-1]
Slice(s, i, j) == IF j <= i THEN <<>> ELSE SubSeq(s, i, j - 1)

\* the first position from i on whose character is not in class (Len(s)+1 if none)
RECURSIVE RunEnd(_, _, _)
RunEnd(s, i, class) ==
    IF i > Len(s) \/ s[i] \notin class THEN i ELSE RunEnd(s, i + 1, class)

\* str.split(ch)[0]
BeforeFirst(s, ch) ==
    IF \E k \in 1..Len(s) : s[k] = ch
    THEN Slice(s, 1, CHOOSE k \in 1..Len(s) :
                        s[k] = ch /\ \A m \in 1..(k - 1) : s[m] # ch)
    ELSE s

\* str.strip()
Strip(s) ==
    IF \A k \in 1..Len(s) : s[k] \in SpaceChars THEN <<>>
    ELSE LET a == CHOOSE k \in 1..Len(s) :
                     s[k] \notin SpaceChars /\ \A m \in 1..(k - 1) : s[m] \in SpaceChars
             b == CHOOSE k \in 1..Len(s) :
                     s[k] \notin SpaceChars /\ \A m \in (k + 1)..Len(s) : s[m] \in SpaceChars
         IN  Slice(s, a, b + 1)

\* str.startswith(p)
StartsWith(s, p) == Len(s) >= Len(p) /\ Slice(s, 1, Len(p) + 1) = p

\* p in s, for strings
Contains(s, p) ==
    \E i \in 1..(Len(s) - Len(p) + 1) : Slice(s, i, i + Len(p)) = p

\* the elements of a sequence
Range(s) == {s[i] : i \in 1..Len(s)}

(***************************************************************************)
(* The names the source spells out.                                        *)
(***************************************************************************)

S_template_type == <<"t","e","m","p","l","a","t","e","_","t","y","p","e">>
S_template == <<"t","e","m","p","l","a","t","e">>
S_save_path == <<"s","a","v","e","_","p","a","t","h">>
S_formatted_string == <<"f","o","r","m","a","t","t","e","d","_","s","t","r","i","n","g">>
S_saved_file_path == <<"s","a","v","e","d","_","f","i","l","e","_","p","a","t","h">>
S_inputs == <<"i","n","p","u","t","s">>
S_datetime == <<"d","a","t","e","t","i","m","e">>
S_now == <<"n","o","w">>
S_random == <<"r","a","n","d","o","m">>
S_math == <<"m","a","t","h">>
S_end == <<"e","n","d">>
S_name == <<"n","a","m","e">>
S_age == <<"a","g","e">>

\* FormatString.additional_context, by its keys
additional_context == {S_datetime, S_now, S_random, S_math}

\* the words _extract_keys drops from a control structure
ControlKeywords == {<<"i","f">>, <<"e","l","s","e">>, <<"e","l","i","f">>,
                    <<"f","o","r">>, <<"i","n">>}

(***************************************************************************)
(* FormatString._extract_keys                                              *)
(***************************************************************************)

\* add_var that cuts the name at '|' only
add_var_keeps_attribute(acc, var) ==
    LET v == Strip(BeforeFirst(var, "|"))
    IN  IF v \notin acc.seen /\ v \notin additional_context
        THEN [variables |-> Append(acc.variables, v), seen |-> acc.seen \cup {v}]
        ELSE acc

\* add_var: acc is the pair (variables, seen) the closure updates
add_var(acc, var) ==
    LET v == Strip(BeforeFirst(BeforeFirst(var, "|"), "."))
    IN  IF v \notin acc.seen /\ v \notin additional_context
        THEN [variables |-> Append(acc.variables, v), seen |-> acc.seen \cup {v}]
        ELSE acc

\* (?:\|[\w\s]+)?  from g: the positions where the optional filter part can end
FilterEnds(t, g) ==
    {g} \cup (IF At(t, g) = "|" THEN (g + 2)..RunEnd(t, g + 1, WordSpaceChars) ELSE {})

\* (?:\.[^\(\)]+\(\))?  from p: the positions where the optional call part can end
CallEnds(t, p) ==
    {p} \cup (IF At(t, p) = "."
              THEN { r + 2 : r \in { x \in (p + 2)..RunEnd(t, p + 1, NotParenChars) :
                                       At(t, x) = "(" /\ At(t, x + 1) = ")" } }
              ELSE {})

\* \s*\}\}  from q: the positions of the closing braces
CloseStarts(t, q) ==
    { s \in q..RunEnd(t, q, SpaceChars) : At(t, s) = "}" /\ At(t, s + 1) = "}" }

\* The ways  \{\{\s*([\w.]+)(?:\|[\w\s]+)?(?:\.[^\(\)]+\(\))?\s*\}\}  matches at i:
\* <<a, g, p, q, s>> with the group at a..g-1, the filter part ending at p, the
\* call part ending at q and the closing braces at s, s+1.
JinjaExprParses(t, i) ==
    IF ~(At(t, i) = "{" /\ At(t, i + 1) = "{") THEN {}
    ELSE
      LET a == RunEnd(t, i + 2, SpaceChars)
      IN  UNION { UNION { UNION { { <<a, g, p, q, s>> : s \in CloseStarts(t, q) }
                                  : q \in CallEnds(t, p) }
                          : p \in FilterEnds(t, g) }
                  : g \in (a + 1)..RunEnd(t, a, WordDotChars) }

\* m is tried before n by the backtracking matcher: every quantifier is greedy
TriedBefore(m, n) ==
    \/ m[2] > n[2]
    \/ m[2] = n[2] /\ m[3] > n[3]
    \/ m[2] = n[2] /\ m[3] = n[3] /\ m[4] > n[4]
    \/ m[2] = n[2] /\ m[3] = n[3] /\ m[4] = n[4] /\ m[5] > n[5]

\* re.match of the Jinja2 expression pattern at i: [found, group, end]
JinjaExprMatch(t, i) ==
    LET ps == JinjaExprParses(t, i)
    IN  IF ps = {} THEN [found |-> FALSE, group |-> <<>>, end |-> i]
        ELSE LET m == CHOOSE x \in ps : \A y \in ps \ {x} : TriedBefore(x, y)
             IN  [found |-> TRUE, group |-> Slice(t, m[1], m[2]), end |-> m[5] + 2]

\* re.match of  \{(\w+)\}  at i
SimpleFieldMatch(t, i) ==
    LET e == RunEnd(t, i + 1, WordChars)
    IN  IF At(t, i) = "{" /\ e > i + 1 /\ At(t, e) = "}"
        THEN [found |-> TRUE, group |-> Slice(t, i + 1, e), end |-> e + 1]
        ELSE [found |-> FALSE, group |-> <<>>, end |-> i]

\* re.match of  \{%.*?%\}  at i: the group is the whole structure
ControlMatch(t, i) ==
    LET ends == { j \in (i + 2)..(Len(t) - 1) :
                    /\ t[j] = "%" /\ t[j + 1] = "}"
                    /\ \A k \in (i + 2)..(j - 1) : t[k] \in DotChars }
    IN  IF At(t, i) = "{" /\ At(t, i + 1) = "%" /\ ends # {}
        THEN LET j == CHOOSE x \in ends : \A y \in ends : x <= y
             IN  [found |-> TRUE, group |-> Slice(t, i, j + 2), end |-> j + 2]
        ELSE [found |-> FALSE, group |-> <<>>, end |-> i]

\* re.match of  \b(\w+)\|\b  at i
FilteredWordMatch(t, i) ==
    LET e == RunEnd(t, i, WordChars)
    IN  IF /\ At(t, i) \in WordChars
           /\ At(t, i - 1) \notin WordChars
           /\ At(t, e) = "|"
           /\ At(t, e + 1) \in WordChars
        THEN [found |-> TRUE, group |-> Slice(t, i, e), end |-> e + 1]
        ELSE [found |-> FALSE, group |-> <<>>, end |-> i]

\* re.finditer: the groups of the non-overlapping matches, left to right
RECURSIVE JinjaExprGroups(_, _)
JinjaExprGroups(t, i) ==
    IF i > Len(t) THEN <<>>
    ELSE LET m == JinjaExprMatch(t, i)
         IN  IF m.found THEN <<m.group>> \o JinjaExprGroups(t, m.end)
             ELSE JinjaExprGroups(t, i + 1)

RECURSIVE SimpleFieldGroups(_, _)
SimpleFieldGroups(t, i) ==
    IF i > Len(t) THEN <<>>
    ELSE LET m == SimpleFieldMatch(t, i)
         IN  IF m.found THEN <<m.group>> \o SimpleFieldGroups(t, m.end)
             ELSE SimpleFieldGroups(t, i + 1)

RECURSIVE ControlGroups(_, _)
ControlGroups(t, i) ==
    IF i > Len(t) THEN <<>>
    ELSE LET m == ControlMatch(t, i)
         IN  IF m.found THEN <<m.group>> \o ControlGroups(t, m.end)
             ELSE ControlGroups(t, i + 1)

RECURSIVE FilteredWordGroups(_, _)
FilteredWordGroups(t, i) ==
    IF i > Len(t) THEN <<>>
    ELSE LET m == FilteredWordMatch(t, i)
         IN  IF m.found THEN <<m.group>> \o FilteredWordGroups(t, m.end)
             ELSE FilteredWordGroups(t, i + 1)

\* for var in vars: add_var(var)
RECURSIVE AddAll(_, _)
AddAll(acc, vars) ==
    IF vars = <<>> THEN acc
    ELSE AddAll(add_var(acc, Head(vars)), Tail(vars))

\* the words of one control structure that _extract_keys keeps
KeptWords(words) ==
    SelectSeq(words, LAMBDA w : ~StartsWith(w, S_end) /\ w \notin ControlKeywords)

\* the third loop of _extract_keys, over the control structures
RECURSIVE AddControl(_, _)
AddControl(acc, structures) ==
    IF structures = <<>> THEN acc
    ELSE AddControl(AddAll(acc, KeptWords(FilteredWordGroups(Head(structures), 1))),
                    Tail(structures))

\* _extract_keys
extract_keys(template) ==
    AddControl(AddAll(AddAll([variables |-> <<>>, seen |-> {}],
                             JinjaExprGroups(template, 1)),
                      SimpleFieldGroups(template, 1)),
               ControlGroups(template, 1)).variables

(***************************************************************************)
(* Python values: a str, an int or a dict with str keys.  One record shape *)
(* serves all three, so that any two values can be compared.               *)
(***************************************************************************)

PyStr(chars) == [ty |-> "str", s |-> chars, n |-> 0, d |-> <<>>]

PyInt(k) == [ty |-> "int", s |-> <<>>, n |-> k, d |-> <<>>]

PyDict(f) == [ty |-> "dict", s |-> <<>>, n |-> 0, d |-> f]

\* {}
EmptyDict == PyDict(<<>>)

DigitChars == <<"0","1","2","3","4","5","6","7","8","9">>

\* the decimal digits of a natural number
RECURSIVE Digits(_)
Digits(k) ==
    IF k < 10 THEN <<DigitChars[k + 1]>>
    ELSE Digits(k \div 10) \o <<DigitChars[(k % 10) + 1]>>

\* str(v)
str(v) == IF v.ty = "str" THEN v.s ELSE Digits(v.n)

\* kwargs.get(key, "")
GetOrEmpty(kwargs, key) ==
    IF key \in DOMAIN kwargs THEN kwargs[key] ELSE PyStr(<<>>)

(***************************************************************************)
(* str.format of kwargs, as CPython's MarkupIterator reads the template:   *)
(* "{{" and "}}" are literal braces, "{" opens a replacement field that    *)
(* runs to the next "}", and the field's name is looked up in kwargs.      *)
(***************************************************************************)

\* where the field opened before i ends: the first '{', '}' or ':' from i on
FieldEnd(t, i) == RunEnd(t, i, Alphabet \ {"{", "}", ":"})

\* the exception a replacement field raises, "" when it raises none
FieldError(t, i, kwargs) ==
    LET e == FieldEnd(t, i)
        field == Slice(t, i, e)
    IN  IF At(t, e) = "" THEN "ValueError"             \* expected '}' before end of string
        ELSE IF At(t, e) = "{" THEN "ValueError"       \* unexpected '{' in field name
        ELSE IF field = <<>> THEN "IndexError"         \* {} with no positional argument
        ELSE IF BeforeFirst(field, ".") \notin DOMAIN kwargs THEN "KeyError"
        ELSE IF field \notin DOMAIN kwargs THEN "AttributeError"  \* {name.attr} of a str or int
        ELSE IF At(t, e) = ":" THEN "ValueError"       \* a format spec of template text
        ELSE ""

\* template.format of kwargs from position i on, out being the text produced so far:
\* [raised |-> the exception or "", out |-> the formatted text]
RECURSIVE FormatFrom(_, _, _, _)
FormatFrom(t, i, kwargs, out) ==
    IF i > Len(t) THEN [raised |-> "", out |-> out]
    ELSE IF t[i] = "}"
    THEN IF At(t, i + 1) = "}" THEN FormatFrom(t, i + 2, kwargs, Append(out, "}"))
         ELSE [raised |-> "ValueError", out |-> <<>>]      \* Single '}' encountered
    ELSE IF t[i] = "{"
    THEN IF i = Len(t) THEN [raised |-> "ValueError", out |-> <<>>]  \* Single '{' encountered
         ELSE IF t[i + 1] = "{" THEN FormatFrom(t, i + 2, kwargs, Append(out, "{"))
         ELSE IF FieldError(t, i + 1, kwargs) # ""
         THEN [raised |-> FieldError(t, i + 1, kwargs), out |-> <<>>]
         ELSE FormatFrom(t, FieldEnd(t, i + 1) + 1, kwargs,
                         out \o str(kwargs[Slice(t, i + 1, FieldEnd(t, i + 1))]))
    ELSE FormatFrom(t, i + 1, kwargs, Append(out, t[i]))

\* template.format of kwargs
format(template, kwargs) == FormatFrom(template, 1, kwargs, <<>>)

(***************************************************************************)
(* os.path of a POSIX host, and the host's output directory.               *)
(***************************************************************************)

\* folder_paths.get_output_directory()
OutputDir == <<"/","o","u","t">>

\* os.path.join(a, b)
path_join(a, b) ==
    IF At(b, 1) = "/" THEN b
    ELSE IF a = <<>> \/ At(a, Len(a)) = "/" THEN a \o b
    ELSE a \o <<"/">> \o b

\* s.rstrip('/')
RECURSIVE RStripSlash(_)
RStripSlash(s) ==
    IF s # <<>> /\ s[Len(s)] = "/" THEN RStripSlash(Slice(s, 1, Len(s))) ELSE s

\* os.path.dirname(p)
dirname(p) ==
    LET slashes == {k \in 1..Len(p) : p[k] = "/"}
        head == IF slashes = {} THEN <<>>
                ELSE Slice(p, 1, (CHOOSE k \in slashes : \A m \in slashes : m <= k) + 1)
    IN  IF head # <<>> /\ \E k \in 1..Len(head) : head[k] # "/"
        THEN RStripSlash(head) ELSE head

(***************************************************************************)
(* json.dump(obj, f, sort_keys=True) and json.load(f).  A JSON text is the *)
(* sequence of its tokens; the whitespace of indent=2 is not a token.      *)
(***************************************************************************)

\* the characters in code point order
CodeOrder ==
    <<"\n"," ","%","(",")",",",".","/","0","1","2","3","4","5","6","7","8","9",":",
      "A","B","H","J","N","S","T","_",
      "a","b","c","d","e","f","g","h","i","j","k","l","m","n","o","p","q","r",
      "s","t","u","v","w","x","y","z","{","|","}">>

Code(c) == CHOOSE k \in 1..Len(CodeOrder) : CodeOrder[k] = c

\* a < b for str
StrLess(a, b) ==
    \E k \in 1..(Len(b)) :
        /\ \A m \in 1..(k - 1) : m <= Len(a) /\ a[m] = b[m]
        /\ (k = Len(a) + 1 \/ (k <= Len(a) /\ Code(a[k]) < Code(b[k])))

\* sorted(keys)
RECURSIVE Sorted(_)
Sorted(keys) ==
    IF keys = {} THEN <<>>
    ELSE LET least == CHOOSE k \in keys : \A o \in keys \ {k} : StrLess(k, o)
         IN  <<least>> \o Sorted(keys \ {least})

Tok(kind, chars, num) == [k |-> kind, s |-> chars, n |-> num]

Punct(kind) == Tok(kind, <<>>, 0)

\* json.dumps(v, sort_keys=True), as tokens
RECURSIVE JsonDump(_)
RECURSIVE DumpItems(_, _)
DumpItems(d, keys) ==
    IF keys = <<>> THEN <<>>
    ELSE <<Tok("str", Head(keys), 0), Punct(":")>> \o JsonDump(d[Head(keys)])
         \o (IF Tail(keys) = <<>> THEN <<>> ELSE <<Punct(",")>>)
         \o DumpItems(d, Tail(keys))

JsonDump(v) ==
    IF v.ty = "str" THEN <<Tok("str", v.s, 0)>>
    ELSE IF v.ty = "int" THEN <<Tok("int", <<>>, v.n)>>
    ELSE <<Punct("{")>> \o DumpItems(v.d, Sorted(DOMAIN v.d)) \o <<Punct("}")>>

\* d = {key: value}: the assignment forgets the entries d had
DictReplace(d, key, value) == [k \in {key} |-> value]

\* d[key] = value on a dict
DictPut(d, key, value) ==
    [k \in DOMAIN d \cup {key} |-> IF k = key THEN value ELSE d[k]]

NoParse == [ok |-> FALSE, val |-> EmptyDict, next |-> 0]

\* the JSON decoder from token i on: [ok, val, next]
RECURSIVE ParseValue(_, _)
RECURSIVE ParseItems(_, _, _)
ParseItems(toks, i, d) ==
    IF ~(i + 2 <= Len(toks) /\ toks[i].k = "str" /\ toks[i + 1].k = ":") THEN NoParse
    ELSE LET v == ParseValue(toks, i + 2)
         IN  IF ~v.ok \/ v.next > Len(toks) THEN NoParse
             ELSE IF toks[v.next].k = "}"
             THEN [ok |-> TRUE, val |-> PyDict(DictPut(d, toks[i].s, v.val)),
                   next |-> v.next + 1]
             ELSE IF toks[v.next].k = ","
             THEN ParseItems(toks, v.next + 1, DictPut(d, toks[i].s, v.val))
             ELSE NoParse

ParseValue(toks, i) ==
    IF i > Len(toks) THEN NoParse
    ELSE IF toks[i].k = "str" THEN [ok |-> TRUE, val |-> PyStr(toks[i].s), next |-> i + 1]
    ELSE IF toks[i].k = "int" THEN [ok |-> TRUE, val |-> PyInt(toks[i].n), next |-> i + 1]
    ELSE IF toks[i].k = "{"
    THEN IF i + 1 <= Len(toks) /\ toks[i + 1].k = "}"
         THEN [ok |-> TRUE, val |-> EmptyDict, next |-> i + 2]
         ELSE ParseItems(toks, i + 1, <<>>)
    ELSE NoParse

\* json.loads: the whole text must be one value
JsonLoad(toks) ==
    LET r == ParseValue(toks, 1)
    IN  IF r.ok /\ r.next = Len(toks) + 1 THEN r ELSE NoParse

(***************************************************************************)
(* The inputs of the model: templates are written by joining at most       *)
(* MaxParts parts, so that braces of neighbouring parts meet, and the      *)
(* templates of the source's doctests are added as they stand.             *)
(***************************************************************************)

\* 'Hi '
P_text ==
    <<"H","i"," ">>

\* '{name}'
P_name ==
    <<"{","n","a","m","e","}">>

\* '{age}'
P_age ==
    <<"{","a","g","e","}">>

\* '{{ name }}'
P_jinja_name ==
    <<"{","{"," ","n","a","m","e"," ","}","}">>

\* '{{ g | up }}'
P_filter_spaced ==
    <<"{","{"," ","g"," ","|"," ","u","p"," ","}","}">>

\* '{{ name|up }}'
P_filter_tight ==
    <<"{","{"," ","n","a","m","e","|","u","p"," ","}","}">>

\* '{{ datetime.now() }}'
P_call ==
    <<"{","{"," ","d","a","t","e","t","i","m","e",".","n","o","w","(",")"," ","}","}">>

\* '{{ snow }}'
P_snow ==
    <<"{","{"," ","s","n","o","w"," ","}","}">>

\* '{now}'
P_now ==
    <<"{","n","o","w","}">>

\* '{% if age|int %}'
P_control ==
    <<"{","%"," ","i","f"," ","a","g","e","|","i","n","t"," ","%","}">>

\* '{'
P_open ==
    <<"{">>

\* '}'
P_close ==
    <<"}">>

\* '{template}'
P_template ==
    <<"{","t","e","m","p","l","a","t","e","}">>

\* '{{ name.x }}'
P_attr ==
    <<"{","{"," ","n","a","m","e",".","x"," ","}","}">>

\* '{{ .x }}'
P_dot ==
    <<"{","{"," ",".","x"," ","}","}">>

\* 'Hello {name}, your age is {age}'
D_extract_simple ==
    <<"H","e","l","l","o"," ","{","n","a","m","e","}",","," ","y","o","u","r"," ","a","g","e"," ","i","s"," ","{","a","g","e","}">>

\* 'Hello {{ name }}, {{ greeting | upper }}'
D_extract_jinja ==
    <<"H","e","l","l","o"," ","{","{"," ","n","a","m","e"," ","}","}",","," ","{","{"," ","g","r","e","e","t","i","n","g"," ","|"," ","u","p","p","e","r"," ","}","}">>

\* 'Hello {name}, today is {{ date }}'
D_extract_mixed ==
    <<"H","e","l","l","o"," ","{","n","a","m","e","}",","," ","t","o","d","a","y"," ","i","s"," ","{","{"," ","d","a","t","e"," ","}","}">>

\* 'Time: {{ datetime.now() }}'
D_extract_context ==
    <<"T","i","m","e",":"," ","{","{"," ","d","a","t","e","t","i","m","e",".","n","o","w","(",")"," ","}","}">>

\* 'Hello {name}, you are {age} years old'
D_format_simple ==
    <<"H","e","l","l","o"," ","{","n","a","m","e","}",","," ","y","o","u"," ","a","r","e"," ","{","a","g","e","}"," ","y","e","a","r","s"," ","o","l","d">>

\* 'Name: {{ name }}'
D_format_jinja ==
    <<"N","a","m","e",":"," ","{","{"," ","n","a","m","e"," ","}","}">>

\* 'Hello {name}'
D_get_config ==
    <<"H","e","l","l","o"," ","{","n","a","m","e","}">>

Parts == {P_text, P_name, P_age, P_jinja_name, P_filter_spaced, P_filter_tight,
          P_call, P_snow, P_now, P_control, P_open, P_close, P_template, P_attr,
          P_dot}

DocTemplates == {D_extract_simple, D_extract_jinja, D_extract_mixed,
                 D_extract_context, D_format_simple, D_format_jinja, D_get_config}

\* the most parts a composed template is joined from
MaxParts == 2

RECURSIVE Join(_)
Join(ps) == IF ps = <<>> THEN <<>> ELSE Head(ps) \o Join(Tail(ps))

Templates ==
    { Join(ps) : ps \in UNION { [1..k -> Parts] : k \in 0..MaxParts } }
        \cup DocTemplates

\* _extract_keys on every template of the model, computed once
keys_of == [t \in Templates |-> extract_keys(t)]

\* the template_type choices of INPUT_TYPES
T_Simple == <<"S","i","m","p","l","e">>
T_Jinja2 == <<"J","i","n","j","a","2">>
TemplateTypes == {T_Simple, T_Jinja2}

\* the keyword inputs a node is executed with: any of these names, each a str or an int
KwNames == {S_name, S_age}
KwValues == {PyStr(<<"A","l">>), PyInt(30)}
Kwargs == UNION { [names -> KwValues] : names \in SUBSET KwNames }

\* what the Jinja2 library does with a template is the library's: it renders a
\* text, raises TemplateSyntaxError, or raises another exception
JinjaOutcomes ==
    { [outcome |-> "rendered", text |-> <<>>],
      [outcome |-> "rendered", text |-> <<"A","l">>],
      [outcome |-> "TemplateSyntaxError", text |-> <<"e","n","d">>],
      [outcome |-> "UndefinedError", text |-> <<>>] }
NoJinja == [outcome |-> "unused", text |-> <<>>]

\* f"Error in Jinja2 template: {str(e)}"
JinjaErrorText(msg) ==
    <<"E","r","r","o","r"," ","i","n"," ","J","i","n","j","a","2"," ",
      "t","e","m","p","l","a","t","e",":"," ">> \o msg

\* random.randrange(sys.maxsize) draws from 0..RandRange-1
RandRange == 2

\* the ids the host gives its FormatString nodes
NodeIds == {"n1", "n2"}

\* the templates typed into the nodes of the widget specification
WidgetTemplates ==
    {<<>>, D_format_simple, D_get_config, D_format_jinja, D_extract_jinja, P_template}

\* the images fed to the circuit breaker, and its optional status input
Triggers == {"image_a", "image_b"}
StatusKwargs == {<<>>, [status |-> TRUE], [status |-> FALSE]}

(***************************************************************************)
(* The state.                                                              *)
(***************************************************************************)

VARIABLES
    node_configs,   \* FormatString.node_configs: node id -> config
    RETURN_TYPES,   \* FormatString.RETURN_TYPES, a class attribute
    RETURN_NAMES,   \* FormatString.RETURN_NAMES, a class attribute
    fs,             \* the files of the host: path -> [state, data]
    inp,            \* the inputs of the node a single-node specification follows
    call,           \* the last call: its name, arguments, and what it returned or raised
    updated,        \* history: node id -> the config update_widget last returned for it
    saved           \* history: path -> the arguments of the save that last succeeded there

vars == <<node_configs, RETURN_TYPES, RETURN_NAMES, fs, inp, call, updated, saved>>

\* the paths a save can write to
SavePaths == {<<>>, <<"s">>, <<"/","a">>}
FsPaths == {path_join(OutputDir, sp) : sp \in SavePaths \ {<<>>}}

AbsentFile == [state |-> "absent", data |-> <<>>]

(***************************************************************************)
(* FormatString                                                            *)
(***************************************************************************)

\* the three fields of config["inputs"] that update_widget always writes first
FixedInputs ==
    [k \in {S_template_type, S_template, S_save_path} |->
        IF k = S_template_type THEN [type |-> "Simple|Jinja2", options |-> ""]
        ELSE IF k = S_template THEN [type |-> "STRING", options |-> "multiline=True"]
        ELSE [type |-> "STRING", options |-> "default=''"]]

\* ("STRING", {"default": ""})
StringInput == [type |-> "STRING", options |-> "default=''"]

\* for key in keys: config["inputs"][key] = ...; config["outputs"].append(...)
RECURSIVE AddKeys(_, _)
AddKeys(config, keys) ==
    IF keys = <<>> THEN config
    ELSE AddKeys([inputs |-> DictPut(config.inputs, Head(keys), StringInput),
                  outputs |-> Append(config.outputs,
                                     [name |-> Head(keys), type |-> "STRING"])],
                 Tail(keys))

\* the config of a template with the two fixed outputs ahead of those of the keys
widget_config_fixed_first(template) ==
    LET c == AddKeys([inputs |-> FixedInputs,
                      outputs |-> <<[name |-> S_formatted_string, type |-> "STRING"],
                                    [name |-> S_saved_file_path, type |-> "STRING"]>>],
                     keys_of[template])
    IN  [inputs |-> c.inputs, outputs |-> c.outputs]

\* the config update_widget builds for a template
widget_config(template) ==
    LET c == AddKeys([inputs |-> FixedInputs, outputs |-> <<>>], keys_of[template])
    IN  [inputs |-> c.inputs,
         outputs |-> c.outputs \o <<[name |-> S_formatted_string, type |-> "STRING"],
                                    [name |-> S_saved_file_path, type |-> "STRING"]>>]

\* update_widget on a class whose output shape is not rewritten by an update
update_widget_keeps_shape(node_id, template_type, template) ==
    /\ UNCHANGED <<RETURN_TYPES, RETURN_NAMES>>
    /\ node_configs' = DictPut(node_configs, node_id, widget_config(template))
    /\ call' = [op |-> "update_widget", node_id |-> node_id,
                template_type |-> template_type, template |-> template,
                raised |-> "", ret |-> widget_config(template)]
    /\ UNCHANGED <<fs, inp>>

\* FormatString.update_widget
update_widget(node_id, template_type, template) ==
    LET keys == keys_of[template]
        config == widget_config(template)
    IN  /\ RETURN_TYPES' = [i \in 1..Len(keys) |-> "STRING"] \o <<"STRING", "STRING">>
        /\ RETURN_NAMES' = keys \o <<S_formatted_string, S_saved_file_path>>
        /\ node_configs' = DictPut(node_configs, node_id, config)
        /\ call' = [op |-> "update_widget", node_id |-> node_id,
                    template_type |-> template_type, template |-> template,
                    raised |-> "", ret |-> config]
        /\ UNCHANGED <<fs, inp>>

\* FormatString.get_node_config
get_node_config(node_id) ==
    /\ call' = [op |-> "get_node_config", node_id |-> node_id, raised |-> "",
                ret |-> IF node_id \in DOMAIN node_configs
                        THEN node_configs[node_id] ELSE <<>>]
    /\ UNCHANGED <<node_configs, RETURN_TYPES, RETURN_NAMES, fs, inp>>

\* the save_data dict of format_string, with every kwarg saved as an input
save_data_of_kwargs(template_type, template, kwargs) ==
    PyDict([k \in {S_template_type, S_template, S_inputs} |->
              IF k = S_template_type THEN PyStr(template_type)
              ELSE IF k = S_template THEN PyStr(template)
              ELSE PyDict(kwargs)])

\* the save_data dict of format_string
save_data(template_type, template, kwargs) ==
    PyDict([k \in {S_template_type, S_template, S_inputs} |->
              IF k = S_template_type THEN PyStr(template_type)
              ELSE IF k = S_template THEN PyStr(template)
              ELSE PyDict([key \in Range(keys_of[template]) |->
                             GetOrEmpty(kwargs, key)])])

\* tuple(str(kwargs.get(key, "")) for key in keys)
key_values(template, kwargs) ==
    LET keys == keys_of[template]
    IN  [i \in 1..Len(keys) |-> str(GetOrEmpty(kwargs, keys[i]))]

\* the formatting step of format_string: [raised, text]; jinja is what the
\* Jinja2 library does with the template
formatted_string(template_type, template, kwargs, jinja) ==
    IF template_type = T_Simple
    THEN [raised |-> format(template, kwargs).raised, text |-> format(template, kwargs).out]
    ELSE IF jinja.outcome = "rendered" THEN [raised |-> "", text |-> jinja.text]
    ELSE IF jinja.outcome = "TemplateSyntaxError"
    THEN [raised |-> "", text |-> JinjaErrorText(jinja.text)]
    ELSE [raised |-> jinja.outcome, text |-> <<>>]

\* The save step of format_string on a world where it lets the failure of the
\* write out: [raised, path, file]
save_state_uncaught(save_path, data, old, io) ==
    LET full == path_join(OutputDir, save_path)
    IN  IF save_path = <<>> THEN [raised |-> "", path |-> <<>>, file |-> old]
        ELSE IF dirname(full) = <<>> \/ io = "makedirs_fails" \/ io = "open_fails"
                  \/ old.state = "locked"
        THEN [raised |-> "OSError", path |-> <<>>, file |-> old]
        ELSE IF io = "write_fails"
        THEN [raised |-> "OSError", path |-> <<>>,
              file |-> [state |-> "file", data |-> Slice(JsonDump(data), 1, Len(JsonDump(data)))]]
        ELSE [raised |-> "", path |-> full,
              file |-> [state |-> "file", data |-> JsonDump(data)]]

\* The save step of format_string: [raised, path, file], the exception it lets
\* out, the save_path it leaves and the file at the joined path afterwards.  io is
\* what the file system does: makedirs or open may fail, and a write may fail
\* after open has truncated the file.  A locked path (a directory, a file the
\* host may not open) fails open.
save_state(save_path, data, old, io) ==
    LET full == path_join(OutputDir, save_path)
    IN  IF save_path = <<>> THEN [raised |-> "", path |-> <<>>, file |-> old]
        ELSE IF dirname(full) = <<>> \/ io = "makedirs_fails" \/ io = "open_fails"
                  \/ old.state = "locked"
        THEN [raised |-> "", path |-> <<>>, file |-> old]
        ELSE IF io = "write_fails"
        THEN [raised |-> "", path |-> <<>>,
              file |-> [state |-> "file", data |-> Slice(JsonDump(data), 1, Len(JsonDump(data)))]]
        ELSE [raised |-> "", path |-> full,
              file |-> [state |-> "file", data |-> JsonDump(data)]]

IoOutcomes == {"ok", "makedirs_fails", "open_fails", "write_fails"}

\* FormatString.format_string
format_string(template_type, template, save_path, kwargs, jinja, io) ==
    LET f == formatted_string(template_type, template, kwargs, jinja)
        full == path_join(OutputDir, save_path)
        sv == save_state(save_path, save_data(template_type, template, kwargs),
                         IF save_path = <<>> THEN AbsentFile ELSE fs[full], io)
        args == [op |-> "format_string", template_type |-> template_type,
                 template |-> template, save_path |-> save_path, kwargs |-> kwargs,
                 jinja |-> jinja, io |-> io]
    IN  IF f.raised # ""
        THEN /\ call' = [args EXCEPT !.op = "format_string"] @@ [raised |-> f.raised, ret |-> <<>>]
             /\ UNCHANGED <<node_configs, RETURN_TYPES, RETURN_NAMES, fs, inp>>
        ELSE /\ call' = args @@
                    [raised |-> sv.raised,
                     ret |-> IF sv.raised # "" THEN <<>>
                             ELSE key_values(template, kwargs) \o <<f.text, sv.path>>]
             /\ fs' = IF save_path = <<>> THEN fs ELSE [fs EXCEPT ![full] = sv.file]
             /\ UNCHANGED <<node_configs, RETURN_TYPES, RETURN_NAMES, inp>>

\* load_node_state with only the missing file handled
load_result_found_only(file) ==
    IF file.state = "absent" THEN [raised |-> "", ret |-> EmptyDict]
    ELSE IF file.state = "locked" THEN [raised |-> "OSError", ret |-> EmptyDict]
    ELSE IF ~JsonLoad(file.data).ok THEN [raised |-> "JSONDecodeError", ret |-> EmptyDict]
    ELSE [raised |-> "", ret |-> JsonLoad(file.data).val]

\* what load_node_state does with the file at its path: [raised, ret]
load_result(file) ==
    IF file.state = "absent" THEN [raised |-> "", ret |-> EmptyDict]      \* FileNotFoundError
    ELSE IF file.state = "locked" THEN [raised |-> "", ret |-> EmptyDict] \* another OSError
    ELSE IF ~JsonLoad(file.data).ok THEN [raised |-> "", ret |-> EmptyDict]
    ELSE [raised |-> "", ret |-> JsonLoad(file.data).val]

\* FormatString.load_node_state; a path that names no file of the model is absent
load_node_state(file_path) ==
    LET r == load_result(IF file_path \in DOMAIN fs THEN fs[file_path] ELSE AbsentFile)
    IN  /\ call' = [op |-> "load_node_state", file_path |-> file_path,
                    raised |-> r.raised, ret |-> r.ret]
        /\ UNCHANGED <<node_configs, RETURN_TYPES, RETURN_NAMES, fs, inp>>

\* FormatString._extract_keys, called on its own
call_extract_keys(template) ==
    /\ call' = [op |-> "_extract_keys", template |-> template, raised |-> "",
                ret |-> keys_of[template]]
    /\ UNCHANGED <<node_configs, RETURN_TYPES, RETURN_NAMES, fs, inp>>

\* the test of IS_CHANGED without its look at the template type
forces_recalc_any_type(kwargs) ==
    \E k \in additional_context : Contains(kwargs[S_template].s, k)

\* the test of IS_CHANGED: a Jinja2 template whose text holds a context name
forces_recalc(kwargs) ==
    /\ (IF S_template_type \in DOMAIN kwargs THEN kwargs[S_template_type].s
        ELSE <<"s","i","m","p","l","e">>) = T_Jinja2
    /\ \E k \in additional_context : Contains(kwargs[S_template].s, k)

\* FormatString.IS_CHANGED; rnd is what random.randrange returns
IS_CHANGED(kwargs, rnd) ==
    /\ call' = [op |-> "IS_CHANGED", kwargs |-> kwargs, raised |-> "",
                ret |-> IF forces_recalc(kwargs) THEN PyInt(rnd) ELSE PyDict(kwargs)]
    /\ UNCHANGED <<node_configs, RETURN_TYPES, RETURN_NAMES, fs, inp>>

(***************************************************************************)
(* CircuitBreaker                                                          *)
(***************************************************************************)

\* "status" in kwargs: the input is wired, whatever it carries
status_given(kwargs) == "status" \in DOMAIN kwargs

\* kwargs.get("status"), None being falsy
status_set(kwargs) == "status" \in DOMAIN kwargs /\ kwargs["status"]

\* CircuitBreaker.doit
doit(trigger, kwargs) ==
    /\ call' = IF status_set(kwargs)
               THEN [op |-> "doit", trigger |-> trigger, kwargs |-> kwargs,
                     raised |-> "InterruptProcessingException", ret |-> <<>>]
               ELSE [op |-> "doit", trigger |-> trigger, kwargs |-> kwargs,
                     raised |-> "", ret |-> <<trigger>>]
    /\ UNCHANGED <<node_configs, RETURN_TYPES, RETURN_NAMES, fs, inp>>

(***************************************************************************)
(* Specifications                                                          *)
(***************************************************************************)

NoInput == [template_type |-> <<>>, template |-> <<>>, save_path |-> <<>>, kwargs |-> <<>>]

\* the module as imported: the class attributes of lines 54-58
InitClass ==
    /\ node_configs = <<>>
    /\ RETURN_TYPES = <<"STRING", "STRING">>
    /\ RETURN_NAMES = <<S_formatted_string, S_saved_file_path>>
    /\ call = [op |-> "init", raised |-> ""]
    /\ updated = <<>>
    /\ saved = <<>>

NoFiles == [p \in FsPaths |-> AbsentFile]

Init == InitClass /\ fs = NoFiles /\ inp = NoInput

\* the browser edits the template of a node: POST /update_format_string_node
UpdateNode ==
    \E n \in NodeIds, ty \in TemplateTypes, t \in WidgetTemplates :
        /\ update_widget(n, ty, t)
        /\ updated' = [m \in DOMAIN updated \cup {n} |->
                          IF m = n THEN call'.ret ELSE updated[m]]
        /\ UNCHANGED saved

\* the browser asks for a node's sockets: GET /get_format_string_node_config/{node_id}
GetNodeConfig ==
    \E n \in NodeIds : get_node_config(n) /\ UNCHANGED <<updated, saved>>

\* the host executes a circuit breaker node
RunCircuitBreaker ==
    \E tr \in Triggers, kw \in StatusKwargs : doit(tr, kw) /\ UNCHANGED <<updated, saved>>

Next == UpdateNode \/ GetNodeConfig \/ RunCircuitBreaker

Spec == Init /\ [][Next]_vars

\* the names of a config's outputs, in order
OutputNames(config) == [i \in 1..Len(config.outputs) |-> config.outputs[i].name]

C2_DoitInterruptsOnStatus ==
    call.op = "doit" =>
        IF "status" \in DOMAIN call.kwargs /\ call.kwargs["status"] = TRUE
        THEN call.raised = "InterruptProcessingException" /\ call.ret = <<>>
        ELSE call.raised = "" /\ call.ret = <<call.trigger>>

\* the breaker has interrupted a run
C2_Interrupted ==
    /\ call.op = "doit"
    /\ call.raised = "InterruptProcessingException"
    /\ call.kwargs = [status |-> TRUE]

\* C4: update_widget(node_id, type, template) returns a config whose inputs are the
\* three fixed fields plus one STRING input per extracted key (a key named like a
\* fixed field takes that field's place), and whose outputs are one STRING output
\* per key in extraction order, then formatted_string, then saved_file_path; it
\* sets RETURN_NAMES to those output names in that order, RETURN_TYPES to one
\* STRING per output, and stores the config as node_configs[node_id].
C4_UpdateWidgetShape ==
    call.op = "update_widget" =>
        LET config == call.ret
            keys == keys_of[call.template]
            names == keys \o <<S_formatted_string, S_saved_file_path>>
            fixed == {S_template_type, S_template, S_save_path}
        IN  /\ call.raised = ""
            /\ DOMAIN config.inputs = fixed \cup Range(keys)
            /\ \A k \in Range(keys) : config.inputs[k] = StringInput
            /\ \A k \in fixed \ Range(keys) : config.inputs[k] = FixedInputs[k]
            /\ config.outputs = [i \in 1..Len(names) |-> [name |-> names[i], type |-> "STRING"]]
            /\ RETURN_NAMES = names
            /\ RETURN_TYPES = [i \in 1..Len(names) |-> "STRING"]
            /\ call.node_id \in DOMAIN node_configs
            /\ node_configs[call.node_id] = config

\* a template with two keys has been given to a node
C4_TwoKeysConfigured ==
    /\ call.op = "update_widget"
    /\ keys_of[call.template] = <<S_name, S_age>>
    /\ Len(call.ret.outputs) = 4

\* C6: after any sequence of update_widget calls, get_node_config(id) returns the
\* config the most recent update_widget call for that id returned, whatever was
\* done to other ids in between, and the empty dict for an id never updated.
C6_GetReturnsLastUpdate ==
    call.op = "get_node_config" =>
        /\ call.raised = ""
        /\ call.ret = IF call.node_id \in DOMAIN updated
                      THEN updated[call.node_id] ELSE <<>>

\* a node's config is read back while another node holds a different one
C6_ReadAmongOthers ==
    /\ call.op = "get_node_config"
    /\ DOMAIN updated = NodeIds
    /\ \E m \in NodeIds : updated[m] # updated[call.node_id]
    /\ call.ret = updated[call.node_id]

\* One template, handed to the pure functions of FormatString.
KeysInputs ==
    [template_type : TemplateTypes, template : Templates, save_path : {<<>>},
     kwargs : Kwargs]

InitKeys == InitClass /\ fs = NoFiles /\ inp \in KeysInputs

ExtractKeys == call_extract_keys(inp.template) /\ UNCHANGED <<updated, saved>>

\* the kwargs the host hands to IS_CHANGED: the node's inputs, by name
ChangedKwargs(with_type) ==
    LET named == [k \in DOMAIN inp.kwargs \cup {S_template, S_template_type} |->
                    IF k = S_template THEN PyStr(inp.template)
                    ELSE IF k = S_template_type THEN PyStr(inp.template_type)
                    ELSE inp.kwargs[k]]
    IN  IF with_type THEN named
        ELSE [k \in DOMAIN named \ {S_template_type} |-> named[k]]

IsChanged ==
    \E rnd \in 0..(RandRange - 1), with_type \in BOOLEAN :
        IS_CHANGED(ChangedKwargs(with_type), rnd) /\ UNCHANGED <<updated, saved>>

\* the host executes the node; nothing is saved
FormatKeys ==
    \E jinja \in (IF inp.template_type = T_Simple THEN {NoJinja} ELSE JinjaOutcomes) :
        /\ format_string(inp.template_type, inp.template, inp.save_path, inp.kwargs,
                         jinja, "ok")
        /\ UNCHANGED <<updated, saved>>

NextKeys == ExtractKeys \/ IsChanged \/ FormatKeys

SpecKeys == InitKeys /\ [][NextKeys]_vars

\* C3, for the templates of the Simple dialect: for every template and every set of
\* keyword inputs format_string returns a tuple of length len(keys)+2, keys being
\* _extract_keys(template): element i is str of the value supplied for keys[i], ""
\* when none was supplied, the next-to-last element is the formatted string and the
\* last is the save path.
C3_FormatReturnsKeyValuesTextPath ==
    call.op = "format_string" /\ call.template_type = T_Simple =>
        LET keys == keys_of[call.template]
            n == Len(keys)
        IN  /\ call.raised = ""
            /\ Len(call.ret) = n + 2
            /\ \A i \in 1..n : call.ret[i] = str(GetOrEmpty(call.kwargs, keys[i]))
            /\ call.ret[n + 1] = formatted_string(call.template_type, call.template,
                                                  call.kwargs, call.jinja).text
            /\ call.ret[n + 2] \in {<<>>, path_join(OutputDir, call.save_path)}

\* the white space from i on ends here
SkipSpace(t, i) == RunEnd(t, i, SpaceChars)

\* the variable of the Jinja2 expression {{ var }} or {{ var | filter }} that
\* opens at i, <<>> when none opens there
JinjaVarAt(t, i) ==
    IF At(t, i) = "{" /\ At(t, i + 1) = "{"
    THEN LET a == SkipSpace(t, i + 2)
             b == RunEnd(t, a, WordChars)
             c == SkipSpace(t, b)
             d == IF At(t, c) = "|" THEN SkipSpace(t, c + 1) ELSE c
             e == IF At(t, c) = "|" THEN RunEnd(t, d, WordChars) ELSE c
             f == SkipSpace(t, e)
         IN  IF b > a /\ (At(t, c) = "|" => e > d) /\ At(t, f) = "}" /\ At(t, f + 1) = "}"
             THEN Slice(t, a, b) ELSE <<>>
    ELSE <<>>

\* the variable of the Simple placeholder {var} that opens at i, <<>> when none
\* opens there
SimpleVarAt(t, i) ==
    IF At(t, i) = "{" /\ At(t, i - 1) # "{"
    THEN LET b == RunEnd(t, i + 1, WordChars)
         IN  IF b > i + 1 /\ At(t, b) = "}" THEN Slice(t, i + 1, b) ELSE <<>>
    ELSE <<>>

\* the variables a template uses in either dialect; the names the node supplies
\* itself are no variables
VariablesUsed(t) ==
    ({JinjaVarAt(t, i) : i \in 1..Len(t)} \cup {SimpleVarAt(t, i) : i \in 1..Len(t)})
        \ ({<<>>} \cup additional_context)

\* C5: _extract_keys finds the variable names of both dialects: every variable used
\* as a Simple placeholder {var}, as a Jinja2 expression {{ var }} or as a Jinja2
\* expression with a filter {{ var | filter }} is in the returned list.
C5_ExtractFindsEveryVariable ==
    call.op = "_extract_keys" => VariablesUsed(call.template) \subseteq Range(call.ret)

\* the template names a context function: one of its words is such a name
UsesContextFunction(t) ==
    \E i \in 1..Len(t) :
        /\ t[i] \in WordChars
        /\ At(t, i - 1) \notin WordChars
        /\ Slice(t, i, RunEnd(t, i, WordChars)) \in additional_context

\* the template type IS_CHANGED was called with
GivenType(kwargs) ==
    IF S_template_type \in DOMAIN kwargs THEN kwargs[S_template_type].s ELSE <<>>

WholeWordOf(t, e) ==
    /\ e # <<>>
    /\ \A i \in 1..Len(e) : e[i] \in WordChars
    /\ \E i \in 1..(Len(t) - Len(e) + 1) :
          /\ SubSeq(t, i, i + Len(e) - 1) = e
          /\ At(t, i - 1) \notin WordChars
          /\ At(t, i + Len(e)) \notin WordChars

\* C11: for every template the list _extract_keys returns holds no name twice and
\* none of the names datetime, now, random, math, and each entry is the root of a
\* variable: it has no '.', no '|' and no white space around it, and it is a whole
\* word of the template (or empty, when the expression starts with '.'); the
\* template "Time: {{ datetime.now() }}" yields the empty list.
C11_KeysAreDistinctRoots ==
    call.op = "_extract_keys" =>
        /\ \A i, j \in 1..Len(call.ret) : i # j => call.ret[i] # call.ret[j]
        /\ Range(call.ret) \cap additional_context = {}
        /\ \A e \in Range(call.ret) :
              /\ \A i \in 1..Len(e) : e[i] \notin {".", "|"}
              /\ Strip(e) = e
              /\ e = <<>> \/ WholeWordOf(call.template, e)
        /\ (call.template = D_extract_context => call.ret = <<>>)

\* a variable used with an attribute and again as a placeholder was extracted once
C11_AttributeAndPlaceholder ==
    /\ call.op = "_extract_keys"
    /\ call.template = P_attr \o P_name
    /\ call.ret = <<S_name>>

\* One node that is executed with a save_path, on a host whose files are the
\* model's: the target files are missing, locked, not JSON, or another tool's JSON.
SaveTemplates == {<<>>, D_format_simple, D_format_jinja, D_get_config}

SaveKwargs ==
    {<<>>, [k \in {S_name} |-> PyStr(<<"A","l">>)],
     [k \in {S_name, S_age} |-> IF k = S_name THEN PyStr(<<"A","l">>) ELSE PyInt(30)]}

SaveInputs ==
    [template_type : TemplateTypes, template : SaveTemplates, save_path : SavePaths,
     kwargs : SaveKwargs]

ForeignFiles ==
    { [state |-> "locked", data |-> <<>>],
      [state |-> "file", data |-> <<Tok("str", <<"H","i">>, 0), Punct("}")>>],
      [state |-> "file",
       data |-> <<Punct("{"), Tok("str", S_name, 0), Punct(":"), Tok("int", <<>>, 30),
                  Punct("}")>>] }

InitSave ==
    /\ InitClass
    /\ inp \in SaveInputs
    /\ \/ fs = NoFiles
       \/ \E p \in FsPaths, f \in ForeignFiles : fs = [NoFiles EXCEPT ![p] = f]

\* the last element of a returned tuple
Last(tuple) == tuple[Len(tuple)]

\* the host executes the node
FormatNode ==
    \E jinja \in (IF inp.template_type = T_Simple THEN {NoJinja} ELSE JinjaOutcomes),
       io \in (IF inp.save_path = <<>> THEN {"ok"} ELSE IoOutcomes) :
        /\ format_string(inp.template_type, inp.template, inp.save_path, inp.kwargs,
                         jinja, io)
        /\ saved' =
             IF call'.raised # "" \/ inp.save_path = <<>> THEN saved
             ELSE IF Last(call'.ret) # <<>>
             THEN DictPut(saved, Last(call'.ret),
                          [template_type |-> inp.template_type,
                           template |-> inp.template, kwargs |-> inp.kwargs])
             ELSE [p \in DOMAIN saved \ {path_join(OutputDir, inp.save_path)} |-> saved[p]]
        /\ UNCHANGED updated

\* the browser loads a saved state: POST /load_format_string_node
MissingPath == <<"/","n","o">>

LoadNode ==
    \E p \in FsPaths \cup {MissingPath} :
        load_node_state(p) /\ UNCHANGED <<updated, saved>>

\* the browser edits the node's template
EditNode ==
    /\ update_widget("n1", inp.template_type, inp.template)
    /\ updated' = [m \in DOMAIN updated \cup {"n1"} |->
                      IF m = "n1" THEN call'.ret ELSE updated[m]]
    /\ UNCHANGED saved

NextSave == FormatNode \/ LoadNode \/ EditNode

SpecSave == InitSave /\ [][NextSave]_vars

\* C8: saving is best-effort.  When the formatting raises nothing, format_string
\* raises nothing; it returns the key values and the formatted string whatever
\* becomes of the save, and after them "" with no file touched when save_path is
\* empty, the path joined under the output directory when the write succeeds, and
\* "" when it fails.  No file but the one at the joined path is touched.
C8_SaveIsBestEffort ==
    [][call'.op = "format_string" =>
          LET f == formatted_string(call'.template_type, call'.template, call'.kwargs,
                                    call'.jinja)
              keys == keys_of[call'.template]
              full == path_join(OutputDir, call'.save_path)
              written == /\ call'.io = "ok"
                         /\ dirname(full) # <<>>
                         /\ fs[full].state # "locked"
          IN  IF f.raised # "" THEN call'.raised = f.raised /\ fs' = fs
              ELSE /\ call'.raised = ""
                   /\ Len(call'.ret) = Len(keys) + 2
                   /\ \A i \in 1..Len(keys) :
                         call'.ret[i] = str(GetOrEmpty(call'.kwargs, keys[i]))
                   /\ call'.ret[Len(keys) + 1] = f.text
                   /\ IF call'.save_path = <<>>
                      THEN Last(call'.ret) = <<>> /\ fs' = fs
                      ELSE /\ \A q \in DOMAIN fs \ {full} : fs'[q] = fs[q]
                           /\ IF written
                              THEN Last(call'.ret) = full /\ fs'[full].state = "file"
                              ELSE Last(call'.ret) = <<>>]_vars

\* a save has failed at open, and the node has returned its values all the same
C8_FailedSaveReturned ==
    /\ call.op = "format_string"
    /\ call.save_path # <<>>
    /\ call.io = "open_fails"
    /\ call.raised = ""
    /\ Len(call.ret) = 4
    /\ Last(call.ret) = <<>>

\* C9: after format_string has saved, load_node_state on the returned path returns
\* a record with exactly the fields template_type, template and inputs: the
\* template type and the template passed in, and inputs mapping every key of
\* _extract_keys(template), and no other name, to the value supplied or to "" when
\* none was supplied.
C9_LoadReturnsWhatWasSaved ==
    call.op = "load_node_state" /\ call.file_path \in DOMAIN saved =>
        LET a == saved[call.file_path]
            keys == Range(keys_of[a.template])
        IN  /\ call.raised = ""
            /\ call.ret.ty = "dict"
            /\ DOMAIN call.ret.d = {S_template_type, S_template, S_inputs}
            /\ call.ret.d[S_template_type] = PyStr(a.template_type)
            /\ call.ret.d[S_template] = PyStr(a.template)
            /\ call.ret.d[S_inputs].ty = "dict"
            /\ DOMAIN call.ret.d[S_inputs].d = keys
            /\ \A k \in keys :
                  call.ret.d[S_inputs].d[k] =
                      IF k \in DOMAIN a.kwargs THEN a.kwargs[k] ELSE PyStr(<<>>)

\* a state saved with one of its two keys supplied has been loaded back
C9_LoadedPartialInputs ==
    /\ call.op = "load_node_state"
    /\ call.file_path \in DOMAIN saved
    /\ \E k \in Range(keys_of[saved[call.file_path].template]) :
          /\ k \notin DOMAIN saved[call.file_path].kwargs
          /\ call.ret.d[S_inputs].d[k] = PyStr(<<>>)
    /\ \E k \in DOMAIN saved[call.file_path].kwargs :
          call.ret.d[S_inputs].d[k] = saved[call.file_path].kwargs[k]

\* C10: load_node_state never raises: for a path that does not exist, cannot be
\* read or does not hold valid JSON it returns the empty dict, for a readable JSON
\* file the parsed content; it changes neither node_configs nor RETURN_TYPES nor
\* RETURN_NAMES, nor any file.
C10_LoadNeverRaises ==
    [][call'.op = "load_node_state" =>
          LET file == IF call'.file_path \in DOMAIN fs THEN fs[call'.file_path]
                      ELSE AbsentFile
          IN  /\ call'.raised = ""
              /\ call'.ret = IF file.state = "file" /\ JsonLoad(file.data).ok
                             THEN JsonLoad(file.data).val ELSE EmptyDict
              /\ UNCHANGED <<node_configs, RETURN_TYPES, RETURN_NAMES, fs>>]_vars

\* a file that cannot be read was asked for while a node had a config
C10_UnreadableGaveEmpty ==
    /\ call.op = "load_node_state"
    /\ call.file_path \in DOMAIN fs
    /\ fs[call.file_path].state = "locked"
    /\ call.ret = EmptyDict
    /\ node_configs # <<>>


(***************************************************************************)
(* ModelUnloader                                                           *)
(***************************************************************************)

\* the most entries model_management.current_loaded_models holds
MaxLoaded == 2

\* the models of the host; the last one is never loaded
Models == {"model_a", "model_b", "model_c"}

\* model_management.current_loaded_models: the model of each entry, in order; two
\* entries may hold the same model
LoadedLists == UNION { [1..k -> {"model_a", "model_b"}] : k \in 0..MaxLoaded }

\* the optional model input
ModelKwargs == {<<>>} \cup { [model |-> m] : m \in Models }

\* the api_url input
ApiUrls == { <<"h","t","t","p",":","/","/","a">>, <<>> }

\* get_best_pytorch_device().type
Devices == {"cuda", "mps", "cpu"}

\* requests.post: a response with status 200, a response with another status, or
\* an exception
HttpOutcomes == {"status_200", "status_500", "ConnectionError"}

\* one call to the host, as the log of a run records it: the function, the entry
\* of current_loaded_models it is called on (0: none), the URL posted to
HostCall(fn, at, url) == [fn |-> fn, at |-> at, url |-> url]

\* f"{api_url}/free"
free_url(api_url) == api_url \o <<"/","f","r","e","e">>

\* the entries unload_model unloads when it takes every entry for a match
unload_targets_every_entry(loaded, kwargs) == [i \in 1..Len(loaded) |-> i]

\* the entries of current_loaded_models unload_model calls model_unload on, in order
unload_targets(loaded, kwargs) ==
    IF "model" \in DOMAIN kwargs
    THEN SelectSeq([i \in 1..Len(loaded) |-> i], LAMBDA i : loaded[i] = kwargs["model"])
    ELSE [i \in 1..Len(loaded) |-> i]

\* clear_memory with the failure of the request let out
clear_memory_uncaught(api_url, device, http) ==
    [raised |-> IF http = "ConnectionError" THEN http ELSE "",
     log |-> (IF device = "cuda" THEN <<HostCall("torch.cuda.empty_cache", 0, <<>>)>>
              ELSE <<>>)
             \o <<HostCall("soft_empty_cache", 0, <<>>),
                  HostCall("requests.post", 0, free_url(api_url))>>]

\* clear_memory with the request sent ahead of the cache call
clear_memory_request_first(api_url, device, http) ==
    [raised |-> "",
     log |-> (IF device = "cuda" THEN <<HostCall("torch.cuda.empty_cache", 0, <<>>)>>
              ELSE <<>>)
             \o <<HostCall("requests.post", 0, free_url(api_url)),
                  HostCall("soft_empty_cache", 0, <<>>)>>]

\* ModelUnloader.clear_memory: [raised, log], the exception it lets out and the
\* calls it makes to the host, in order
clear_memory(api_url, device, http) ==
    [raised |-> "",
     log |-> (IF device = "cuda" THEN <<HostCall("torch.cuda.empty_cache", 0, <<>>)>>
              ELSE <<>>)
             \o <<HostCall("soft_empty_cache", 0, <<>>),
                  HostCall("requests.post", 0, free_url(api_url))>>]

\* ModelUnloader.unload_model; loaded, device and http are what the host holds and
\* does during the run
unload_model(trigger, api_url, kwargs, loaded, device, http) ==
    LET targets == unload_targets(loaded, kwargs)
        unloads == [k \in 1..Len(targets) |-> HostCall("model_unload", targets[k], <<>>)]
        cm == clear_memory(api_url, device, http)
        args == [op |-> "unload_model", trigger |-> trigger, api_url |-> api_url,
                 kwargs |-> kwargs, loaded |-> loaded, device |-> device, http |-> http]
    IN  /\ call' = IF cm.raised # ""
                   THEN args @@ [raised |-> cm.raised, ret |-> <<>>,
                                 log |-> unloads \o cm.log]
                   ELSE args @@ [raised |-> "", ret |-> <<trigger>>,
                                 log |-> unloads \o cm.log
                                         \o <<HostCall("soft_empty_cache", 0, <<>>)>>]
        /\ UNCHANGED <<node_configs, RETURN_TYPES, RETURN_NAMES, fs, inp>>

\* One model unloader node, its inputs, and the models the host has loaded.
UnloadInputs ==
    [trigger : Triggers, api_url : ApiUrls, kwargs : ModelKwargs, loaded : LoadedLists]

InitUnload == InitClass /\ fs = NoFiles /\ inp \in UnloadInputs

\* the host executes the model unloader node
UnloadModels ==
    \E device \in Devices, http \in HttpOutcomes :
        /\ unload_model(inp.trigger, inp.api_url, inp.kwargs, inp.loaded, device, http)
        /\ UNCHANGED <<updated, saved>>

NextUnload == UnloadModels \/ RunCircuitBreaker

SpecUnload == InitUnload /\ [][NextUnload]_vars


\* the positions of a log at which the host function fn is called
CallsOf(log, fn) == {k \in 1..Len(log) : log[k].fn = fn}

\* C12: unload_model with a model input calls model_unload, once each, on exactly
\* the entries of current_loaded_models whose model equals the input; with no
\* model input it calls model_unload once on every entry; in both cases it returns
\* the 1-tuple holding the trigger it was given.
C12_UnloadsTheMatchingModels ==
    call.op = "unload_model" =>
        LET unloads == CallsOf(call.log, "model_unload")
            entries == {call.log[k].at : k \in unloads}
        IN  /\ entries = IF "model" \in DOMAIN call.kwargs
                         THEN {e \in 1..Len(call.loaded) :
                                  call.loaded[e] = call.kwargs["model"]}
                         ELSE 1..Len(call.loaded)
            /\ Cardinality(unloads) = Cardinality(entries)
            /\ call.raised = ""
            /\ call.ret = <<call.trigger>>

\* of two loaded models only the one given as input was unloaded
C12_OneOfTwoUnloaded ==
    /\ call.op = "unload_model"
    /\ call.loaded = <<"model_a", "model_b">>
    /\ call.kwargs = [model |-> "model_b"]
    /\ {call.log[k].at : k \in CallsOf(call.log, "model_unload")} = {2}

\* C13: a failed /free call never aborts unload_model: whether the POST to
\* api_url + "/free" returns 200, returns another status or raises, unload_model
\* calls soft_empty_cache after it and returns (trigger,) without raising.
C13_FailedFreeDoesNotAbort ==
    call.op = "unload_model" =>
        /\ call.raised = ""
        /\ call.ret = <<call.trigger>>
        /\ \E k \in CallsOf(call.log, "requests.post") :
              /\ call.log[k].url = call.api_url \o <<"/","f","r","e","e">>
              /\ \E j \in CallsOf(call.log, "soft_empty_cache") : j > k

\* the request raised and the run went on to its end
C13_RequestRaised ==
    /\ call.op = "unload_model"
    /\ call.http = "ConnectionError"
    /\ call.log[Len(call.log)].fn = "soft_empty_cache"
    /\ call.ret = <<call.trigger>>

\* C14: in every run of unload_model the steps come in one order: every
\* model_unload call precedes the /free request, exactly one /free request is
\* made, soft_empty_cache is called once before it and once after it, and the
\* run ends, returning the passthrough tuple, with the last soft_empty_cache.
C14_StepsInFixedOrder ==
    call.op = "unload_model" =>
        LET posts == CallsOf(call.log, "requests.post")
            caches == CallsOf(call.log, "soft_empty_cache")
        IN  /\ Cardinality(posts) = 1
            /\ \A p \in posts :
                  /\ \A k \in CallsOf(call.log, "model_unload") : k < p
                  /\ Cardinality({k \in caches : k < p}) = 1
                  /\ Cardinality({k \in caches : k > p}) = 1
            /\ Len(call.log) \in caches
            /\ call.ret = <<call.trigger>>

\* a run with two unloads on a CUDA host: six calls to the host
C14_LongestRun ==
    /\ call.op = "unload_model"
    /\ call.device = "cuda"
    /\ Cardinality(CallsOf(call.log, "model_unload")) = 2
    /\ Len(call.log) = 6


(***************************************************************************)
(* RandomChoice                                                            *)
(***************************************************************************)

\* the inputs wired to a random choice node, and the values they carry
ChoiceNames == {"input1", "input2", "input3"}
SeedValues == {PyInt(0), PyInt(7), PyInt(30)}
ChoiceKwargs ==
    UNION { [names -> KwValues] : names \in SUBSET ChoiceNames }
        \cup UNION { { [k \in names \cup {"seed"} |-> IF k = "seed" THEN sd ELSE f[k]] :
                         f \in [names -> KwValues], sd \in SeedValues } :
                     names \in SUBSET ChoiceNames }

\* the candidates of a choice that leaves no input out
candidates_with_seed(kwargs) == DOMAIN kwargs

\* [i for i in kwargs.items() if i[0] != "seed"], by name
candidates(kwargs) == DOMAIN kwargs \ {"seed"}

\* RandomChoice.random_choice; pick is the item random.choice draws, and with no
\* item to draw from random.choice raises IndexError, which is raised again
random_choice(kwargs, pick) ==
    /\ call' = IF candidates(kwargs) = {}
               THEN [op |-> "random_choice", kwargs |-> kwargs, pick |-> "",
                     raised |-> "IndexError", ret |-> <<>>]
               ELSE [op |-> "random_choice", kwargs |-> kwargs, pick |-> pick,
                     raised |-> "", ret |-> <<kwargs[pick]>>]
    /\ UNCHANGED <<node_configs, RETURN_TYPES, RETURN_NAMES, fs, inp>>

\* the host executes a random choice node
RandomChoose ==
    \E kw \in ChoiceKwargs :
        \E pick \in (IF candidates(kw) = {} THEN {""} ELSE candidates(kw)) :
            random_choice(kw, pick) /\ UNCHANGED <<updated, saved>>

NextChoice == RandomChoose \/ RunCircuitBreaker

SpecChoice == Init /\ [][NextChoice]_vars

\* C15: random_choice returns a 1-tuple whose element is the value of one of the
\* supplied inputs other than seed; seed is never drawn; and with no input other
\* than seed it raises an exception and returns nothing.
C15_ChoiceIsAnInputNotSeed ==
    call.op = "random_choice" =>
        IF DOMAIN call.kwargs \ {"seed"} = {}
        THEN call.raised # "" /\ call.ret = <<>>
        ELSE /\ call.raised = ""
             /\ Len(call.ret) = 1
             /\ call.pick # "seed"
             /\ \E k \in DOMAIN call.kwargs \ {"seed"} : call.ret[1] = call.kwargs[k]

\* a choice among two inputs, made with a seed whose value no input carries
C15_ChosenWithSeed ==
    /\ call.op = "random_choice"
    /\ DOMAIN call.kwargs = {"input1", "input2", "seed"}
    /\ call.kwargs["seed"] = PyInt(7)
    /\ call.kwargs["input1"] # call.kwargs["input2"]
    /\ call.ret = <<call.kwargs["input2"]>>


(***************************************************************************)
(* Two FormatString nodes in one workflow                                  *)
(***************************************************************************)

\* Two nodes with different templates, wired to the same inputs.  The browser
\* posts a node's template to /update_format_string_node, the host executes a node
\* with its template; the two come in any order.
NodeTemplates == {<<>>, D_get_config, D_format_simple, D_format_jinja}

NodesInputs ==
    { [template_type |-> ty, template |-> tpl, save_path |-> <<>>, kwargs |-> kw] :
        ty \in TemplateTypes,
        tpl \in {f \in [NodeIds -> NodeTemplates] : f["n1"] # f["n2"]},
        kw \in SaveKwargs }

InitNodes == InitClass /\ fs = NoFiles /\ inp \in NodesInputs

\* the browser posts the template of node n
PostTemplate ==
    \E n \in NodeIds :
        /\ update_widget(n, inp.template_type, inp.template[n])
        /\ updated' = [m \in DOMAIN updated \cup {n} |->
                          IF m = n THEN call'.ret ELSE updated[m]]
        /\ UNCHANGED saved

\* the host executes node n
ExecuteNode ==
    \E n \in NodeIds,
       jinja \in (IF inp.template_type = T_Simple THEN {NoJinja} ELSE JinjaOutcomes) :
        /\ format_string(inp.template_type, inp.template[n], inp.save_path, inp.kwargs,
                         jinja, "ok")
        /\ UNCHANGED <<updated, saved>>

NextNodes == PostTemplate \/ ExecuteNode

SpecNodes == InitNodes /\ [][NextNodes]_vars

\* the value format_string computes for the output of a name
OutputValue(name) ==
    IF name = S_formatted_string
    THEN formatted_string(call.template_type, call.template, call.kwargs, call.jinja).text
    ELSE IF name = S_saved_file_path THEN <<>>
    ELSE str(GetOrEmpty(call.kwargs, name))

\* C16: for any interleaving of update_widget calls and format_string executions
\* for two nodes with different templates, once the template of each node has been
\* posted, the tuple format_string returns has as many elements as RETURN_TYPES and
\* RETURN_NAMES declare at that moment, and element i is the value of the output
\* named RETURN_NAMES[i].
C16_ReturnMatchesDeclaredShape ==
    /\ call.op = "format_string"
    /\ call.raised = ""
    /\ DOMAIN node_configs = NodeIds
    => /\ Len(call.ret) = Len(RETURN_TYPES)
       /\ Len(call.ret) = Len(RETURN_NAMES)
       /\ \A k \in 1..Len(call.ret) : call.ret[k] = OutputValue(RETURN_NAMES[k])

=============================================================================
